---- MODULE Spec2Model ----
(***************************************************************************)
(* Model of the deploy pipeline of mediawiki-utils-go (package internal):  *)
(* RunDeploy, parseFlags, validateConfig, GetValidExtensions,              *)
(* GetValidSkins, executeDeploy and the step executors it drives.          *)
(* External commands (git, composer, rsync, php) are inputs: each          *)
(* invocation succeeds or fails nondeterministically.                      *)
(***************************************************************************)
EXTENDS Integers, Sequences, FiniteSets, TLC

VARIABLES
    pc,               \* position of the run inside RunDeploy / executeDeploy
    HOSTNAME,         \* package variable HOSTNAME
    serversFlag,      \* value of the --servers flag as typed (parseFlags' *servers)
    config,           \* the *DeployConfig built by parseFlags
    VALIDEXTENSIONS,  \* package variable VALIDEXTENSIONS
    VALIDSKINS,       \* package variable VALIDSKINS
    scanned,          \* the directories read successfully so far in this run
    exitCodes,        \* local exitCodes of executeDeploy
    idx,              \* index of the range loop executeDeploy is in
    calls,            \* step executors invoked so far, with their outcome
    rsyncs,           \* runRsync invocations so far, with their outcome
    commands,         \* the other external commands run so far, with their outcome
    output,           \* lines printed on standard output so far
    deployErr,        \* the error executeDeploy returned (Nil: none)
    fatal,            \* the message of the log.Fatal / exit path taken
    exitStatus        \* "running", "exit 0" or "exit 1"

vars == <<pc, HOSTNAME, serversFlag, config, VALIDEXTENSIONS, VALIDSKINS, scanned,
          exitCodes, idx, calls, rsyncs, commands, output, deployErr, fatal, exitStatus>>

-----------------------------------------------------------------------------
(* Bounds of the model *)

\* longest --servers list drawn
MaxServers == 2
\* most steps that fail in one run
MaxFailures == 1

\* names that may appear in a request or in the extensions directory (sorted)
ExtNames == <<"Bar", "Foo">>
\* names that may appear in a request or in the skins directory (sorted)
SkinNames == <<"Vector">>
\* server names that may be typed on the command line
ServerNames == {"mw1", "mw2"}
\* what os.Hostname() may return, split at "."
HostNames == {<<"mw1">>, <<"mw1", "telepedia", "net">>}
\* values of --lang
LangValues == {"", "en"}
\* error text of a failed external command (exec.ExitError)
CmdError == "exit status 1"

Range(s) == {s[i] : i \in 1..Len(s)}

SeqsUpTo(S, n) == UNION {[1..k -> S] : k \in 0..n}

\* the lists that name elements of S, none twice
ListsOf(S) ==
    {q \in SeqsUpTo(S, Cardinality(S)) : \A i, j \in 1..Len(q) : i # j => q[i] # q[j]}

-----------------------------------------------------------------------------
(* Package constants *)

DEPLOYUSER == "mediawikiuser"
EXTENSIONPATH == "/prod/mediawiki-staging/extensions/"
SKINPATH == "/prod/mediawiki-staging/skins/"
STAGINGPATH == "/prod/mediawiki-staging"
PRODUCTIONPATH == "/prod/mediawiki"
ALLSERVERS == <<"mw1", "mw2", "mwtask1">>

\* a nil error
Nil == ""

\* a nil slice
NilSlice == <<>>

\* the zero value of DeployConfig
ZeroConfig ==
    [UpgradeExtensions |-> NilSlice, UpgradeSkins |-> NilSlice,
     UpgradeVendor |-> FALSE, UpgradeWorld |-> FALSE, L10n |-> FALSE,
     Lang |-> "", Servers |-> NilSlice, IgnoreTime |-> FALSE, Force |-> FALSE]

-----------------------------------------------------------------------------
(* Inputs *)

\* the --servers values made of one name and a trailing separator ("mw1,"):
\* their last element is the empty name
TrailingSeparator == {<<sv, "">> : sv \in ServerNames}

\* A comma separated flag value is drawn already split at its commas; the
\* empty flag value is the empty sequence. Extensions and skins are named
\* once each; a server may be named twice.
Args ==
    [upgradeExtensions : ListsOf(Range(ExtNames)),
     upgradeSkins : ListsOf(Range(SkinNames)),
     upgradeVendor : BOOLEAN, upgradeWorld : BOOLEAN, l10n : BOOLEAN,
     lang : LangValues,
     servers : SeqsUpTo(ServerNames, MaxServers) \cup {<<"all">>} \cup TrailingSeparator,
     ignoreTime : BOOLEAN, force : BOOLEAN]

\* One directory entry as os.ReadDir and os.Stat see it.
EntryOf(name, kind) ==
    [name |-> name, isDir |-> kind \in {"dir", "repo"}, hasGit |-> kind = "repo"]

\* The listings os.ReadDir may return for a directory holding some of `names`:
\* each name is absent, a plain file, a directory, or a directory with .git.
Listings(names) ==
    LET Kinds == {"absent", "file", "dir", "repo"}
        Build(k) ==
            LET all == [i \in 1..Len(names) |-> EntryOf(names[i], k[i])]
                Keep(e) == \E i \in 1..Len(names) : names[i] = e.name /\ k[i] # "absent"
            IN  SelectSeq(all, Keep)
    IN  {Build(k) : k \in [1..Len(names) -> Kinds]}

-----------------------------------------------------------------------------
(* Pure functions *)

contains(slice, item) == \E i \in 1..Len(slice) : slice[i] = item

\* parseFlags without the "all" sentinel: the flag value is always split.
parseFlagsWithoutAll(args) ==
    [UpgradeExtensions |-> IF args.upgradeExtensions # <<>>
                           THEN args.upgradeExtensions ELSE NilSlice,
     UpgradeSkins |-> IF args.upgradeSkins # <<>> THEN args.upgradeSkins ELSE NilSlice,
     UpgradeVendor |-> args.upgradeVendor,
     UpgradeWorld |-> args.upgradeWorld,
     L10n |-> args.l10n,
     Lang |-> args.lang,
     Servers |-> IF args.servers # <<>> THEN args.servers ELSE NilSlice,
     IgnoreTime |-> args.ignoreTime,
     Force |-> args.force]

parseFlags(args) ==
    [UpgradeExtensions |-> IF args.upgradeExtensions # <<>>
                           THEN args.upgradeExtensions ELSE NilSlice,
     UpgradeSkins |-> IF args.upgradeSkins # <<>> THEN args.upgradeSkins ELSE NilSlice,
     UpgradeVendor |-> args.upgradeVendor,
     UpgradeWorld |-> args.upgradeWorld,
     L10n |-> args.l10n,
     Lang |-> args.lang,
     Servers |-> IF args.servers # <<>>
                 THEN (IF args.servers = <<"all">> THEN ALLSERVERS ELSE args.servers)
                 ELSE NilSlice,
     IgnoreTime |-> args.ignoreTime,
     Force |-> args.force]

\* RunDeploy's --upgrade-world block: it reads the package variables as they
\* are when the block runs.
expandWorld(cfg, validExtensions, validSkins) ==
    IF cfg.UpgradeWorld
    THEN [cfg EXCEPT !.UpgradeExtensions = validExtensions,
                     !.UpgradeSkins = validSkins,
                     !.UpgradeVendor = TRUE,
                     !.L10n = TRUE,
                     !.IgnoreTime = TRUE]
    ELSE cfg

\* The scan loop shared by GetValidExtensions and GetValidSkins.
validEntries(entries) ==
    LET Valid(e) == e.isDir /\ e.hasGit
        kept == SelectSeq(entries, Valid)
    IN  [i \in 1..Len(kept) |-> kept[i].name]

GetValidExtensions(entries) == validEntries(entries)

GetValidSkins(entries) == validEntries(entries)

\* index of the first element of `slice` that is not in `valid`, 0 if none
firstInvalid(slice, valid) ==
    IF \E i \in 1..Len(slice) : ~contains(valid, slice[i])
    THEN CHOOSE i \in 1..Len(slice) :
            /\ ~contains(valid, slice[i])
            /\ \A j \in 1..(i - 1) : contains(valid, slice[j])
    ELSE 0

\* validateConfig with the skins loop ahead of the extensions loop.
validateConfigSkinsFirst(cfg, validExtensions, validSkins) ==
    LET e == firstInvalid(cfg.UpgradeExtensions, validExtensions)
        s == firstInvalid(cfg.UpgradeSkins, validSkins)
    IN  IF s # 0 THEN "invalid skin: " \o cfg.UpgradeSkins[s]
        ELSE IF e # 0 THEN "invalid extension: " \o cfg.UpgradeExtensions[e]
        ELSE IF Len(cfg.Servers) = 0 THEN "at least one server required"
        ELSE IF cfg.Lang # "" /\ ~cfg.L10n THEN "--lang requires --l10n flag"
        ELSE Nil

\* validateConfig without the test of the --lang flag.
validateConfigWithoutLang(cfg, validExtensions, validSkins) ==
    LET e == firstInvalid(cfg.UpgradeExtensions, validExtensions)
        s == firstInvalid(cfg.UpgradeSkins, validSkins)
    IN  IF e # 0 THEN "invalid extension: " \o cfg.UpgradeExtensions[e]
        ELSE IF s # 0 THEN "invalid skin: " \o cfg.UpgradeSkins[s]
        ELSE IF Len(cfg.Servers) = 0 THEN "at least one server required"
        ELSE Nil

validateConfig(cfg, validExtensions, validSkins) ==
    LET e == firstInvalid(cfg.UpgradeExtensions, validExtensions)
        s == firstInvalid(cfg.UpgradeSkins, validSkins)
    IN  IF e # 0 THEN "invalid extension: " \o cfg.UpgradeExtensions[e]
        ELSE IF s # 0 THEN "invalid skin: " \o cfg.UpgradeSkins[s]
        ELSE IF Len(cfg.Servers) = 0 THEN "at least one server required"
        ELSE IF cfg.Lang # "" /\ ~cfg.L10n THEN "--lang requires --l10n flag"
        ELSE Nil

-----------------------------------------------------------------------------
(* Step executors: the error each returns, given how its commands ended *)

\* updateVendor runs reset, pull, composer in turn and returns at the first
\* failure; failAt is the failing command (0: none).
updateVendor(failAt) ==
    IF failAt = 1 THEN "failed to reset vendor: " \o CmdError
    ELSE IF failAt = 2 THEN "failed to pull vendor: " \o CmdError
    ELSE IF failAt = 3 THEN "failed to run composer update: " \o CmdError
    ELSE Nil

updateExtension(extension, failAt) ==
    IF failAt = 0 THEN Nil
    ELSE "failed to update extension " \o extension \o ": " \o CmdError

updateSkin(skin, failAt) ==
    IF failAt = 0 THEN Nil
    ELSE "failed to update skin " \o skin \o ": " \o CmdError

\* rebuildL10n runs the merge script, then the rebuild script.
rebuildL10n(lang, failAt) ==
    IF failAt = 1 THEN "failed to merge message files: " \o CmdError
    ELSE IF failAt = 2 THEN "failed to rebuild l10n cache: " \o CmdError
    ELSE Nil

\* A string that the code splits at its spaces (rsyncParams) is held as the
\* sequence of its space separated fields: concatenating "--inplace " and a
\* string concatenates the field sequences, and strings.Split(params, " ")
\* yields the fields.

\* runRsync without the --delete option.
runRsyncWithoutDelete(params, src, dst) ==
    params \o <<"-r", "--exclude=.*", src, dst>>

\* The argument list runRsync hands to runCommand("rsync", ...).
runRsync(params, src, dst) ==
    params \o <<"-r", "--delete", "--exclude=.*", src, dst>>

localSubtreesAlwaysVendor(cfg) ==
    LET rsyncParams == IF cfg.IgnoreTime THEN <<"--inplace">> ELSE <<"--update">>
    IN  << [params |-> rsyncParams,
            src |-> STAGINGPATH \o "/vendor/",
            dst |-> PRODUCTIONPATH \o "/vendor/"] >>
        \o [i \in 1..Len(cfg.UpgradeExtensions) |->
              [params |-> rsyncParams,
               src |-> EXTENSIONPATH \o "/" \o cfg.UpgradeExtensions[i] \o "/",
               dst |-> PRODUCTIONPATH \o "/extensions/" \o cfg.UpgradeExtensions[i] \o "/"]]
        \o [i \in 1..Len(cfg.UpgradeSkins) |->
              [params |-> rsyncParams,
               src |-> SKINPATH \o "/" \o cfg.UpgradeSkins[i] \o "/",
               dst |-> PRODUCTIONPATH \o "/skins/" \o cfg.UpgradeSkins[i] \o "/"]]

\* The runRsync calls rsyncToLocalProduction makes when none fails, in order.
localSubtrees(cfg) ==
    LET rsyncParams == IF cfg.IgnoreTime THEN <<"--inplace">> ELSE <<"--update">>
        vendor == IF cfg.UpgradeVendor
                  THEN << [params |-> rsyncParams,
                           src |-> STAGINGPATH \o "/vendor/",
                           dst |-> PRODUCTIONPATH \o "/vendor/"] >>
                  ELSE <<>>
        exts == [i \in 1..Len(cfg.UpgradeExtensions) |->
                   [params |-> rsyncParams,
                    src |-> EXTENSIONPATH \o "/" \o cfg.UpgradeExtensions[i] \o "/",
                    dst |-> PRODUCTIONPATH \o "/extensions/"
                               \o cfg.UpgradeExtensions[i] \o "/"]]
        skins == [i \in 1..Len(cfg.UpgradeSkins) |->
                   [params |-> rsyncParams,
                    src |-> SKINPATH \o "/" \o cfg.UpgradeSkins[i] \o "/",
                    dst |-> PRODUCTIONPATH \o "/skins/" \o cfg.UpgradeSkins[i] \o "/"]]
    IN  vendor \o exts \o skins

\* rsyncToLocalProduction without the returns: every subtree is mirrored
\* whichever of them fails.
rsyncToLocalProductionContinues(cfg, failAt) ==
    LET all == localSubtrees(cfg)
    IN  [i \in 1..Len(all) |->
           [by |-> "rsyncToLocalProduction", params |-> all[i].params,
            src |-> all[i].src, dst |-> all[i].dst,
            args |-> runRsync(all[i].params, all[i].src, all[i].dst),
            err |-> IF i = failAt THEN CmdError ELSE Nil]]

\* The runRsync calls rsyncToLocalProduction makes when the failAt-th of them
\* fails (0: none fails): it returns at the first failure.
rsyncToLocalProduction(cfg, failAt) ==
    LET all == localSubtrees(cfg)
        n == IF failAt = 0 THEN Len(all) ELSE failAt
    IN  [i \in 1..n |->
           [by |-> "rsyncToLocalProduction", params |-> all[i].params,
            src |-> all[i].src, dst |-> all[i].dst,
            args |-> runRsync(all[i].params, all[i].src, all[i].dst),
            err |-> IF i = failAt THEN CmdError ELSE Nil]]

\* rsyncToRemoteServer without the test of config.IgnoreTime.
rsyncToRemoteServerAlwaysUpdate(server, cfg, failAt) ==
    LET rsyncParams == <<"--update", "-e", "ssh", "-i", "/prod/mediawiki-staging/deploykey">>
        src == PRODUCTIONPATH \o "/"
        dst == DEPLOYUSER \o "@" \o server \o ":" \o PRODUCTIONPATH \o "/"
    IN  [by |-> "rsyncToRemoteServer", params |-> rsyncParams,
         src |-> src, dst |-> dst, args |-> runRsync(rsyncParams, src, dst),
         err |-> IF failAt = 0 THEN Nil ELSE CmdError]

\* The runRsync call rsyncToRemoteServer makes.
rsyncToRemoteServer(server, cfg, failAt) ==
    LET base == <<"-e", "ssh", "-i", "/prod/mediawiki-staging/deploykey">>
        rsyncParams == IF cfg.IgnoreTime THEN <<"--inplace">> \o base
                       ELSE <<"--update">> \o base
        src == PRODUCTIONPATH \o "/"
        dst == DEPLOYUSER \o "@" \o server \o ":" \o PRODUCTIONPATH \o "/"
    IN  [by |-> "rsyncToRemoteServer", params |-> rsyncParams,
         src |-> src, dst |-> dst, args |-> runRsync(rsyncParams, src, dst),
         err |-> IF failAt = 0 THEN Nil ELSE CmdError]

\* the error of the last runRsync call of a sequence of them (Nil if none)
lastErr(rs) == IF rs = <<>> THEN Nil ELSE rs[Len(rs)].err

\* One external command (exec.Command) and how it ended; wired tells whether
\* the child's standard output and error are the program's own (runCommand)
\* or are discarded (a bare cmd.Run).
Command(name, args, dir, wired, failed) ==
    [name |-> name, args |-> args, dir |-> dir, wired |-> wired,
     err |-> IF failed THEN CmdError ELSE Nil]

\* the first n commands of cmds, the failAt-th of which fails (0: none)
ranUntil(cmds, failAt) ==
    LET n == IF failAt = 0 THEN Len(cmds) ELSE failAt
    IN  [i \in 1..n |-> Command(cmds[i].name, cmds[i].args, cmds[i].dir, cmds[i].wired,
                             i = failAt)]

\* updateVendorCommands without the returns: all three commands run whichever
\* of them fails.
updateVendorCommandsAll(failAt) ==
    LET vendorPath == STAGINGPATH \o "/vendor"
    IN  << Command("git", <<"-C", vendorPath, "reset", "--hard">>, "", TRUE,
                   failAt = 1),
           Command("git", <<"-C", vendorPath, "pull", "--recurse-submodules",
                            "origin", "REL1_43", "--quiet">>, "", TRUE, failAt = 2),
           Command("composer", <<"update", "--no-dev", "--quiet">>, STAGINGPATH,
                   FALSE, failAt = 3) >>

\* The commands updateVendor runs when its failAt-th command fails.
updateVendorCommands(failAt) ==
    LET vendorPath == STAGINGPATH \o "/vendor"
    IN  ranUntil(<< [name |-> "git", dir |-> "", wired |-> TRUE,
                     args |-> <<"-C", vendorPath, "reset", "--hard">>],
                    [name |-> "git", dir |-> "", wired |-> TRUE,
                     args |-> <<"-C", vendorPath, "pull", "--recurse-submodules",
                                "origin", "REL1_43", "--quiet">>],
                    [name |-> "composer", dir |-> STAGINGPATH, wired |-> FALSE,
                     args |-> <<"update", "--no-dev", "--quiet">>] >>, failAt)

updateExtensionCommands(extension, failAt) ==
    LET extPath == EXTENSIONPATH \o "/" \o extension
    IN  ranUntil(<< [name |-> "git", dir |-> "", wired |-> TRUE,
                     args |-> <<"-C", extPath, "pull", "--recurse-submodules",
                                "--quiet">>] >>, failAt)

updateSkinCommands(skin, failAt) ==
    LET skinPath == SKINPATH \o "/" \o skin
    IN  ranUntil(<< [name |-> "git", dir |-> "", wired |-> TRUE,
                     args |-> <<"-C", skinPath, "pull", "--quiet">>] >>, failAt)

rebuildL10nCommands(lang, failAt) ==
    LET mergeScript == PRODUCTIONPATH
                         \o "/extensions/TelepediaMagic/maintenance/mergeMessageFileList.php"
        rebuildScript == PRODUCTIONPATH \o "/maintenance/rebuildLocalisationCache.php"
    IN  ranUntil(<< [name |-> "php", dir |-> "", wired |-> FALSE,
                     args |-> <<mergeScript, "--quiet", "--wiki=metawiki",
                                "--extensions-dir=/prod/mediawiki/extensions:/prod/mediawiki/skins",
                                "--output",
                                PRODUCTIONPATH \o "/config/ExtensionMessageFiles.php">>],
                    [name |-> "php", dir |-> "", wired |-> FALSE,
                     args |-> <<rebuildScript, "--quiet", "--wiki=metawiki">>
                                \o (IF lang # "" THEN <<"--lang=" \o lang>> ELSE <<>>)] >>,
                 failAt)

\* a []string as fmt prints it with %v
formatSlice(slice) ==
    LET RECURSIVE join(_)
        join(q) == IF q = <<>> THEN ""
                   ELSE IF Len(q) = 1 THEN q[1]
                   ELSE q[1] \o " " \o join(Tail(q))
    IN  "[" \o join(slice) \o "]"

-----------------------------------------------------------------------------
(* The run *)

Init ==
    /\ pc = "RunDeploy"
    /\ HOSTNAME = ""
    /\ serversFlag = <<>>
    /\ config = ZeroConfig
    /\ VALIDEXTENSIONS = NilSlice
    /\ VALIDSKINS = NilSlice
    /\ scanned = {}
    /\ exitCodes = NilSlice
    /\ idx = 0
    /\ calls = <<>>
    /\ rsyncs = <<>>
    /\ commands = <<>>
    /\ output = <<>>
    /\ deployErr = Nil
    /\ fatal = Nil
    /\ exitStatus = "running"

\* os.Exit(1) after printing msg (fmt.Println + os.Exit, or log.Fatal)
Fatal(msg) ==
    /\ pc' = "exited"
    /\ fatal' = msg
    /\ exitStatus' = "exit 1"

\* RunDeploy up to the inventory scan: hostname, parseFlags, --upgrade-world.
RunDeployBegin ==
    /\ pc = "RunDeploy"
    /\ \/ /\ Fatal("Could not determine hostname...")
          /\ UNCHANGED <<HOSTNAME, serversFlag, config>>
       \/ \E hname \in HostNames, args \in Args :
            /\ HOSTNAME' = hname[1]
            /\ serversFlag' = args.servers
            /\ config' = expandWorld(parseFlags(args), VALIDEXTENSIONS, VALIDSKINS)
            /\ pc' = "GetValidExtensions"
            /\ UNCHANGED <<fatal, exitStatus>>
    /\ UNCHANGED <<VALIDEXTENSIONS, VALIDSKINS, scanned, exitCodes, idx, calls,
                   rsyncs, commands, output, deployErr>>

\* VALIDEXTENSIONS = GetValidExtensions()
ScanExtensions ==
    /\ pc = "GetValidExtensions"
    /\ \/ /\ Fatal("open " \o EXTENSIONPATH \o ": no such file or directory")
          /\ UNCHANGED <<VALIDEXTENSIONS, scanned>>
       \/ \E entries \in Listings(ExtNames) :
            /\ VALIDEXTENSIONS' = GetValidExtensions(entries)
            /\ scanned' = scanned \cup {EXTENSIONPATH}
            /\ pc' = "GetValidSkins"
            /\ UNCHANGED <<fatal, exitStatus>>
    /\ UNCHANGED <<HOSTNAME, serversFlag, config, VALIDSKINS, exitCodes, idx, calls,
                   rsyncs, commands, output, deployErr>>

\* VALIDSKINS = GetValidSkins()
ScanSkins ==
    /\ pc = "GetValidSkins"
    /\ \/ /\ Fatal("open " \o SKINPATH \o ": no such file or directory")
          /\ UNCHANGED <<VALIDSKINS, scanned>>
       \/ \E entries \in Listings(SkinNames) :
            /\ VALIDSKINS' = GetValidSkins(entries)
            /\ scanned' = scanned \cup {SKINPATH}
            /\ pc' = "validateConfig"
            /\ UNCHANGED <<fatal, exitStatus>>
    /\ UNCHANGED <<HOSTNAME, serversFlag, config, VALIDEXTENSIONS, exitCodes, idx,
                   calls, rsyncs, commands, output, deployErr>>

\* Validate with the result of validateConfig dropped.
ValidateIgnoringError ==
    /\ pc = "validateConfig"
    /\ exitCodes' = NilSlice
    /\ pc' = IF contains(config.Servers, HOSTNAME) THEN "updateVendor" ELSE "remoteLoop"
    /\ idx' = 1
    /\ output' = Append(output, "Deploying to servers: " \o formatSlice(config.Servers))
    /\ UNCHANGED <<HOSTNAME, serversFlag, config, VALIDEXTENSIONS, VALIDSKINS, scanned,
                   calls, rsyncs, commands, deployErr, fatal, exitStatus>>

\* RunDeploy's validateConfig check, and on success the entry of executeDeploy
\* up to its test of the local host.
Validate ==
    /\ pc = "validateConfig"
    /\ LET err == validateConfig(config, VALIDEXTENSIONS, VALIDSKINS)
       IN  IF err # Nil
           THEN /\ Fatal(err)
                /\ UNCHANGED <<exitCodes, output>>
           ELSE /\ output' = Append(output, "Deploying to servers: "
                                               \o formatSlice(config.Servers))
                /\ exitCodes' = NilSlice
                /\ pc' = IF contains(config.Servers, HOSTNAME)
                         THEN "updateVendor" ELSE "remoteLoop"
                /\ UNCHANGED <<fatal, exitStatus>>
    /\ idx' = 1
    /\ UNCHANGED <<HOSTNAME, serversFlag, config, VALIDEXTENSIONS, VALIDSKINS, scanned,
                   calls, rsyncs, commands, deployErr>>

\* AfterStep without the early return: a failure is recorded and the run goes on.
AfterStepNeverReturns(step, arg, err, nextPc, nextIdx) ==
    /\ calls' = Append(calls, [step |-> step, arg |-> arg, err |-> err])
    /\ exitCodes' = IF err # Nil THEN Append(exitCodes, 1) ELSE exitCodes
    /\ pc' = nextPc
    /\ idx' = nextIdx
    /\ UNCHANGED <<deployErr, fatal, exitStatus>>

\* AfterStep returning the error of a failed step whatever config.Force is.
AfterStepAlwaysReturns(step, arg, err, nextPc, nextIdx) ==
    /\ calls' = Append(calls, [step |-> step, arg |-> arg, err |-> err])
    /\ IF err # Nil
       THEN /\ exitCodes' = Append(exitCodes, 1)
            /\ deployErr' = err
            /\ Fatal(err)
            /\ idx' = idx
       ELSE /\ pc' = nextPc
            /\ idx' = nextIdx
            /\ UNCHANGED <<exitCodes, deployErr, fatal, exitStatus>>

\* AfterStep returning the aggregate error in place of the failed step's own.
AfterStepReturnsAggregate(step, arg, err, nextPc, nextIdx) ==
    /\ calls' = Append(calls, [step |-> step, arg |-> arg, err |-> err])
    /\ IF err # Nil
       THEN /\ exitCodes' = Append(exitCodes, 1)
            /\ IF ~config.Force
               THEN /\ deployErr' = "deployment completed with errors"
                    /\ Fatal("deployment completed with errors")
                    /\ idx' = idx
               ELSE /\ pc' = nextPc
                    /\ idx' = nextIdx
                    /\ UNCHANGED <<deployErr, fatal, exitStatus>>
       ELSE /\ pc' = nextPc
            /\ idx' = nextIdx
            /\ UNCHANGED <<exitCodes, deployErr, fatal, exitStatus>>

\* AfterStep invoking a failed step again when config.Force is set.
AfterStepRetries(step, arg, err, nextPc, nextIdx) ==
    /\ calls' = Append(calls, [step |-> step, arg |-> arg, err |-> err])
    /\ IF err # Nil
       THEN /\ exitCodes' = Append(exitCodes, 1)
            /\ IF ~config.Force
               THEN /\ deployErr' = err
                    /\ Fatal(err)
                    /\ idx' = idx
               ELSE UNCHANGED <<pc, idx, deployErr, fatal, exitStatus>>
       ELSE /\ pc' = nextPc
            /\ idx' = nextIdx
            /\ UNCHANGED <<exitCodes, deployErr, fatal, exitStatus>>

\* What executeDeploy does with the error a step returned: record it, and
\* return it (RunDeploy then log.Fatal's it) unless config.Force.
AfterStep(step, arg, err, nextPc, nextIdx) ==
    /\ calls' = Append(calls, [step |-> step, arg |-> arg, err |-> err])
    /\ IF err # Nil
       THEN /\ exitCodes' = Append(exitCodes, 1)
            /\ IF ~config.Force
               THEN /\ deployErr' = err
                    /\ Fatal(err)
                    /\ idx' = idx
               ELSE /\ pc' = nextPc
                    /\ idx' = nextIdx
                    /\ UNCHANGED <<deployErr, fatal, exitStatus>>
       ELSE /\ pc' = nextPc
            /\ idx' = nextIdx
            /\ UNCHANGED <<exitCodes, deployErr, fatal, exitStatus>>

\* The ways a step made of n external commands may end: 0 (all succeed) or the
\* number of the command that fails.
Outcomes(n) == IF Len(exitCodes) < MaxFailures THEN 0..n ELSE {0}

Skip(nextPc, nextIdx) ==
    /\ pc' = nextPc
    /\ idx' = nextIdx
    /\ UNCHANGED <<exitCodes, calls, rsyncs, commands, output, deployErr, fatal,
                   exitStatus>>

UpdateVendorStep ==
    /\ pc = "updateVendor"
    /\ IF config.UpgradeVendor
       THEN \E failAt \in Outcomes(3) :
              /\ output' = Append(output, "Updating vendor...")
              /\ commands' = commands \o updateVendorCommands(failAt)
              /\ AfterStep("updateVendor", "", updateVendor(failAt), "extLoop", 1)
              /\ UNCHANGED rsyncs
       ELSE Skip("extLoop", 1)
    /\ UNCHANGED <<HOSTNAME, serversFlag, config, VALIDEXTENSIONS, VALIDSKINS, scanned>>

\* UpdateExtensionStep walking the list from its end.
UpdateExtensionStepReversed ==
    /\ pc = "extLoop"
    /\ IF idx <= Len(config.UpgradeExtensions)
       THEN LET ext == config.UpgradeExtensions[Len(config.UpgradeExtensions) + 1 - idx]
            IN  \E failAt \in Outcomes(1) :
                  /\ output' = Append(output, "Updating extension: " \o ext)
                  /\ commands' = commands \o updateExtensionCommands(ext, failAt)
                  /\ AfterStep("updateExtension", ext, updateExtension(ext, failAt),
                               "extLoop", idx + 1)
                  /\ UNCHANGED rsyncs
       ELSE Skip("skinLoop", 1)
    /\ UNCHANGED <<HOSTNAME, serversFlag, config, VALIDEXTENSIONS, VALIDSKINS, scanned>>

UpdateExtensionStep ==
    /\ pc = "extLoop"
    /\ IF idx <= Len(config.UpgradeExtensions)
       THEN LET ext == config.UpgradeExtensions[idx]
            IN  \E failAt \in Outcomes(1) :
                  /\ output' = Append(output, "Updating extension: " \o ext)
                  /\ commands' = commands \o updateExtensionCommands(ext, failAt)
                  /\ AfterStep("updateExtension", ext, updateExtension(ext, failAt),
                               "extLoop", idx + 1)
                  /\ UNCHANGED rsyncs
       ELSE Skip("skinLoop", 1)
    /\ UNCHANGED <<HOSTNAME, serversFlag, config, VALIDEXTENSIONS, VALIDSKINS, scanned>>

UpdateSkinStep ==
    /\ pc = "skinLoop"
    /\ IF idx <= Len(config.UpgradeSkins)
       THEN LET skin == config.UpgradeSkins[idx]
            IN  \E failAt \in Outcomes(1) :
                  /\ output' = Append(output, "Updating skin: " \o skin)
                  /\ commands' = commands \o updateSkinCommands(skin, failAt)
                  /\ AfterStep("updateSkin", skin, updateSkin(skin, failAt),
                               "skinLoop", idx + 1)
                  /\ UNCHANGED rsyncs
       ELSE Skip("rsyncToLocalProduction", 1)
    /\ UNCHANGED <<HOSTNAME, serversFlag, config, VALIDEXTENSIONS, VALIDSKINS, scanned>>

LocalSyncStep ==
    /\ pc = "rsyncToLocalProduction"
    /\ \E failAt \in Outcomes(Len(localSubtrees(config))) :
         LET made == rsyncToLocalProduction(config, failAt)
         IN  /\ rsyncs' = rsyncs \o made
             /\ AfterStep("rsyncToLocalProduction", "", lastErr(made), "rebuildL10n", 1)
             /\ UNCHANGED <<commands, output>>
    /\ UNCHANGED <<HOSTNAME, serversFlag, config, VALIDEXTENSIONS, VALIDSKINS, scanned>>

RebuildL10nStep ==
    /\ pc = "rebuildL10n"
    /\ IF config.L10n
       THEN \E failAt \in Outcomes(2) :
              /\ output' = Append(output, "Rebuilding localization cache...")
              /\ commands' = commands \o rebuildL10nCommands(config.Lang, failAt)
              /\ AfterStep("rebuildL10n", config.Lang, rebuildL10n(config.Lang, failAt),
                           "remoteLoop", 1)
              /\ UNCHANGED rsyncs
       ELSE Skip("remoteLoop", 1)
    /\ UNCHANGED <<HOSTNAME, serversFlag, config, VALIDEXTENSIONS, VALIDSKINS, scanned>>

RemoteSyncStep ==
    /\ pc = "remoteLoop"
    /\ idx <= Len(config.Servers)
    /\ LET server == config.Servers[idx]
       IN  IF server = HOSTNAME
           THEN Skip("remoteLoop", idx + 1)
           ELSE \E failAt \in Outcomes(1) :
                  LET made == rsyncToRemoteServer(server, config, failAt)
                  IN  /\ output' = Append(output, "Syncing to remote server: " \o server)
                      /\ UNCHANGED commands
                      /\ rsyncs' = Append(rsyncs, made)
                      /\ AfterStep("rsyncToRemoteServer", server, made.err,
                                   "remoteLoop", idx + 1)
    /\ UNCHANGED <<HOSTNAME, serversFlag, config, VALIDEXTENSIONS, VALIDSKINS, scanned>>

\* Finish without the exitCodes scan: executeDeploy returns nil.
FinishWithoutScan ==
    /\ pc = "remoteLoop"
    /\ idx > Len(config.Servers)
    /\ deployErr' = Nil
    /\ pc' = "exited"
    /\ exitStatus' = "exit 0"
    /\ output' = Append(output, "Deploy completed successfully")
    /\ UNCHANGED <<HOSTNAME, serversFlag, config, VALIDEXTENSIONS, VALIDSKINS, scanned,
                   exitCodes, idx, calls, rsyncs, commands, fatal>>

\* The end of executeDeploy (the exitCodes scan) and of RunDeploy.
Finish ==
    /\ pc = "remoteLoop"
    /\ idx > Len(config.Servers)
    /\ LET err == IF \E i \in 1..Len(exitCodes) : exitCodes[i] # 0
                  THEN "deployment completed with errors" ELSE Nil
       IN  /\ deployErr' = err
           /\ IF err # Nil
              THEN /\ Fatal(err)
                   /\ UNCHANGED output
              ELSE /\ pc' = "exited"
                   /\ exitStatus' = "exit 0"
                   /\ output' = Append(output, "Deploy completed successfully")
                   /\ UNCHANGED fatal
    /\ UNCHANGED <<HOSTNAME, serversFlag, config, VALIDEXTENSIONS, VALIDSKINS, scanned,
                   exitCodes, idx, calls, rsyncs, commands>>

Next ==
    \/ RunDeployBegin
    \/ ScanExtensions
    \/ ScanSkins
    \/ Validate
    \/ UpdateVendorStep
    \/ UpdateExtensionStep
    \/ UpdateSkinStep
    \/ LocalSyncStep
    \/ RebuildL10nStep
    \/ RemoteSyncStep
    \/ Finish

Spec == Init /\ [][Next]_vars

-----------------------------------------------------------------------------
(* Vocabulary of the properties *)

BothScanned == scanned = {EXTENSIONPATH, SKINPATH}

\* positions inside executeDeploy
ExecPcs == {"updateVendor", "extLoop", "skinLoop", "rsyncToLocalProduction",
            "rebuildL10n", "remoteLoop"}

\* executeDeploy has returned (with nil, or with an error)
Returned == pc = "exited" /\ (exitStatus = "exit 0" \/ deployErr # Nil)

\* the request has reached executeDeploy
ReachedExecute == pc \in ExecPcs \/ Returned

LocalInScope == contains(config.Servers, HOSTNAME)

StepsOf(cs) == [i \in 1..Len(cs) |-> <<cs[i].step, cs[i].arg>>]

IsPrefix(s, t) == Len(s) <= Len(t) /\ \A i \in 1..Len(s) : s[i] = t[i]

AllSucceeded == \A i \in 1..Len(calls) : calls[i].err = Nil

\* The steps of a request in the fixed order, one per list entry.
Plan(cfg, host) ==
    LET others == SelectSeq(cfg.Servers, LAMBDA sv : sv # host)
        local ==
            (IF cfg.UpgradeVendor THEN << <<"updateVendor", "">> >> ELSE <<>>)
            \o [i \in 1..Len(cfg.UpgradeExtensions) |->
                  <<"updateExtension", cfg.UpgradeExtensions[i]>>]
            \o [i \in 1..Len(cfg.UpgradeSkins) |->
                  <<"updateSkin", cfg.UpgradeSkins[i]>>]
            \o << <<"rsyncToLocalProduction", "">> >>
            \o (IF cfg.L10n THEN << <<"rebuildL10n", cfg.Lang>> >> ELSE <<>>)
    IN  (IF contains(cfg.Servers, host) THEN local ELSE <<>>)
        \o [i \in 1..Len(others) |-> <<"rsyncToRemoteServer", others[i]>>]

\* place of a step kind in the fixed order
Rank(step) ==
    CASE step = "updateVendor" -> 1
      [] step = "updateExtension" -> 2
      [] step = "updateSkin" -> 3
      [] step = "rsyncToLocalProduction" -> 4
      [] step = "rebuildL10n" -> 5
      [] step = "rsyncToRemoteServer" -> 6

ArgsOf(step) ==
    LET sel == SelectSeq(calls, LAMBDA c : c.step = step)
    IN  [i \in 1..Len(sel) |-> sel[i].arg]

-----------------------------------------------------------------------------
(* Properties *)

\* C1: with Force unset, a step that returned an error is the last step of the
\* run: the run has exited non-zero with that step's error as its result, and
\* no step and no mirror command was invoked after it.
C1_HaltsAtFirstFailure ==
    ~config.Force =>
        /\ \A i \in 1..Len(calls) :
             calls[i].err # Nil =>
                /\ i = Len(calls)
                /\ pc = "exited"
                /\ exitStatus = "exit 1"
                /\ deployErr = calls[i].err
        /\ \A j \in 1..Len(rsyncs) : rsyncs[j].err # Nil => j = Len(rsyncs)

\* a fail-fast run stopped by a failing step with steps of its plan left undone
C1_Witness ==
    /\ ~config.Force
    /\ pc = "exited"
    /\ calls # <<>>
    /\ calls[Len(calls)].err # Nil
    /\ Len(calls) + 2 <= Len(Plan(config, HOSTNAME))

C3_SuccessIffNoStepFailed ==
    /\ Returned => ((deployErr = Nil) <=> AllSucceeded)
    /\ pc = "exited" => ((exitStatus = "exit 0") <=> (Returned /\ AllSucceeded))
    /\ pc = "exited" => exitStatus \in {"exit 0", "exit 1"}

\* a Force run that ran to its end after a failure and still exits non-zero
C3_Witness ==
    /\ config.Force
    /\ Returned
    /\ ~AllSucceeded
    /\ calls[Len(calls)].err = Nil
    /\ exitStatus = "exit 1"

\* C4: the steps invoked so far are always an initial part of the fixed order:
\* dependency update, extensions as declared, skins as declared, local mirror
\* sync, localization rebuild, remote syncs; so a remote sync is invoked only
\* once every local step of the request has been invoked.
C4_FixedOrder ==
    /\ \A i, j \in 1..Len(calls) : i < j => Rank(calls[i].step) <= Rank(calls[j].step)
    /\ IsPrefix(ArgsOf("updateExtension"), config.UpgradeExtensions)
    /\ IsPrefix(ArgsOf("updateSkin"), config.UpgradeSkins)
    /\ IsPrefix(StepsOf(calls), Plan(config, HOSTNAME))
    /\ \A i, j \in 1..Len(rsyncs) :
         (rsyncs[i].by = "rsyncToRemoteServer" /\ rsyncs[j].by = "rsyncToLocalProduction")
            => i > j

\* a run that went through every kind of step, with two different extensions
C4_Witness ==
    /\ Len(calls) >= 7
    /\ {calls[i].step : i \in 1..Len(calls)} =
          {"updateVendor", "updateExtension", "updateSkin", "rsyncToLocalProduction",
           "rebuildL10n", "rsyncToRemoteServer"}
    /\ Len(config.UpgradeExtensions) = 2
    /\ config.UpgradeExtensions[1] # config.UpgradeExtensions[2]

\* C5: a step or a mirror command is invoked only after both directories were
\* scanned and the request passed validation; a run whose scan or validation
\* failed exits non-zero without having invoked any.
C5_NoStepBeforeValidation ==
    /\ (calls # <<>> \/ rsyncs # <<>> \/ pc \in ExecPcs) =>
          /\ BothScanned
          /\ validateConfig(config, VALIDEXTENSIONS, VALIDSKINS) = Nil
    /\ (pc = "exited"
          /\ (~BothScanned \/ validateConfig(config, VALIDEXTENSIONS, VALIDSKINS) # Nil)) =>
          /\ calls = <<>>
          /\ rsyncs = <<>>
          /\ exitStatus = "exit 1"

\* a request for updates that was stopped by validation
C5_Witness ==
    /\ pc = "exited"
    /\ BothScanned
    /\ validateConfig(config, VALIDEXTENSIONS, VALIDSKINS) # Nil
    /\ config.UpgradeVendor
    /\ LocalInScope
    /\ config.UpgradeExtensions # <<>>

\* C6: once --upgrade-world has been expanded and the directories scanned, the
\* request validation and the executor see names every extension and every
\* skin of the inventory, with UpgradeVendor, L10n and IgnoreTime set.
C6_FullUpgradeIsEverything ==
    (config.UpgradeWorld /\ BothScanned) =>
        /\ Range(config.UpgradeExtensions) = Range(VALIDEXTENSIONS)
        /\ Range(config.UpgradeSkins) = Range(VALIDSKINS)
        /\ config.UpgradeVendor
        /\ config.L10n
        /\ config.IgnoreTime

\* the violation validateConfig has to report: the first one in the order
\* extensions, skins, servers, language
FirstViolation ==
    LET badExt == {i \in 1..Len(config.UpgradeExtensions) :
                     config.UpgradeExtensions[i] \notin Range(VALIDEXTENSIONS)}
        badSkin == {i \in 1..Len(config.UpgradeSkins) :
                      config.UpgradeSkins[i] \notin Range(VALIDSKINS)}
        Min(S) == CHOOSE m \in S : \A n \in S : m <= n
    IN  CASE badExt # {} -> "invalid extension: " \o config.UpgradeExtensions[Min(badExt)]
          [] badExt = {} /\ badSkin # {} ->
                "invalid skin: " \o config.UpgradeSkins[Min(badSkin)]
          [] badExt = {} /\ badSkin = {} /\ config.Servers = <<>> ->
                "at least one server required"
          [] OTHER -> IF config.Lang # "" /\ ~config.L10n
                      THEN "--lang requires --l10n flag" ELSE Nil

\* validation has run in this run
Validated == BothScanned /\ pc # "validateConfig"

\* C7: once validation has run, a request with a violation has been rejected
\* with exactly its first violation in the order extensions (as declared),
\* skins (as declared), empty server list, language without localization, and
\* no step was invoked; a request without violation was not rejected.
C7_FirstViolationReported ==
    Validated =>
        IF FirstViolation # Nil
        THEN /\ pc = "exited"
             /\ exitStatus = "exit 1"
             /\ fatal = FirstViolation
             /\ calls = <<>>
        ELSE ReachedExecute

\* a request with all four violations, rejected for its first unknown extension
C7_Witness ==
    /\ Validated
    /\ pc = "exited"
    /\ Len(config.UpgradeExtensions) = 2
    /\ config.UpgradeExtensions[1] # config.UpgradeExtensions[2]
    /\ VALIDEXTENSIONS = <<>>
    /\ config.UpgradeSkins # <<>>
    /\ VALIDSKINS = <<>>
    /\ config.Servers = <<>>
    /\ config.Lang # ""
    /\ ~config.L10n
    /\ fatal = "invalid extension: " \o config.UpgradeExtensions[1]

\* C8: a request that has reached executeDeploy names only extensions and
\* skins of the inventory scanned in that run, has a server, and has a
\* language only with localization; with --upgrade-world too.
C8_RequestInvariants ==
    ReachedExecute =>
        /\ BothScanned
        /\ Range(config.UpgradeExtensions) \subseteq Range(VALIDEXTENSIONS)
        /\ Range(config.UpgradeSkins) \subseteq Range(VALIDSKINS)
        /\ Len(config.Servers) >= 1
        /\ (config.Lang # "" => config.L10n)

\* a request with extensions, a skin and a language that reached executeDeploy
C8_Witness ==
    /\ ReachedExecute
    /\ Len(config.UpgradeExtensions) = 2
    /\ config.UpgradeSkins # <<>>
    /\ config.Lang # ""
    /\ ~config.UpgradeWorld

\* number of remote syncs issued to server sv
RemoteSyncsTo(sv) ==
    Cardinality({i \in 1..Len(calls) :
                    calls[i].step = "rsyncToRemoteServer" /\ calls[i].arg = sv})

LocalSteps == {"updateVendor", "updateExtension", "updateSkin",
               "rsyncToLocalProduction", "rebuildL10n"}

\* C9 (a): a local step is invoked only if the local host is among the servers,
\* and the local sequence has begun once executeDeploy is past it.
C9_LocalIffMember ==
    /\ (\E i \in 1..Len(calls) : calls[i].step \in LocalSteps) => LocalInScope
    /\ (LocalInScope /\ (pc = "remoteLoop" \/ Returned)) =>
          (calls # <<>> /\ calls[1].step \in LocalSteps)

\* C9 (b): no remote sync goes to the local host.
C9_NoRemoteSyncToLocalHost ==
    /\ RemoteSyncsTo(HOSTNAME) = 0
    /\ \A j \in 1..Len(rsyncs) :
         rsyncs[j].by = "rsyncToRemoteServer" =>
            rsyncs[j].dst # DEPLOYUSER \o "@" \o HOSTNAME \o ":" \o PRODUCTIONPATH \o "/"

\* C9: the local sequence runs exactly when the local host is among the
\* servers, no remote sync goes to the local host, and every other server
\* gets at most one remote sync in a run.
C9_LocalAndRemoteScope ==
    /\ C9_LocalIffMember
    /\ C9_NoRemoteSyncToLocalHost
    /\ \A sv \in Range(config.Servers) : RemoteSyncsTo(sv) <= 1

\* the subtrees a request puts in scope of the local mirror sync, each with
\* its place under the staging root and under the production root
InScopeSubtrees ==
    (IF config.UpgradeVendor
     THEN {<<STAGINGPATH \o "/vendor/", PRODUCTIONPATH \o "/vendor/">>} ELSE {})
    \cup {<<STAGINGPATH \o "/extensions//" \o e \o "/",
            PRODUCTIONPATH \o "/extensions/" \o e \o "/">> :
             e \in Range(config.UpgradeExtensions)}
    \cup {<<STAGINGPATH \o "/skins//" \o k \o "/",
            PRODUCTIONPATH \o "/skins/" \o k \o "/">> :
             k \in Range(config.UpgradeSkins)}

\* the subtrees the local mirror sync has mirrored or tried to mirror
LocalMirrored ==
    {<<rsyncs[j].src, rsyncs[j].dst>> :
        j \in {k \in 1..Len(rsyncs) : rsyncs[k].by = "rsyncToLocalProduction"}}

LocalSyncCalls == {i \in 1..Len(calls) : calls[i].step = "rsyncToLocalProduction"}

-----------------------------------------------------------------------------
(* C11: the "all" sentinel *)

\* parseFlags has run
Parsed == pc # "RunDeploy" /\ HOSTNAME # ""

\* the servers that were the target of a remote sync
RemoteTargets == {calls[i].arg : i \in {k \in 1..Len(calls) : calls[k].step = "rsyncToRemoteServer"}}

\* C11: once the flags are parsed, a request whose --servers value is the
\* sentinel "all" holds the full roster mw1, mw2, mwtask1 as its servers, so
\* that validation and the executor never meet the literal "all": it is not
\* among the request's servers, no remote sync goes to it, and it is not
\* announced as a target.
C11_AllSentinelExpanded ==
    (Parsed /\ serversFlag = <<"all">>) =>
        /\ ALLSERVERS = <<"mw1", "mw2", "mwtask1">>
        /\ config.Servers = ALLSERVERS
        /\ ~contains(config.Servers, "all")
        /\ "all" \notin RemoteTargets
        /\ \A j \in 1..Len(rsyncs) :
              rsyncs[j].dst # DEPLOYUSER \o "@all:" \o PRODUCTIONPATH \o "/"
        /\ \A k \in 1..Len(output) : output[k] # "Syncing to remote server: all"

\* a run of --servers=all on mw1 that has synced to mw2 and mwtask1 and exited zero
C11_Witness ==
    /\ serversFlag = <<"all">>
    /\ HOSTNAME = "mw1"
    /\ exitStatus = "exit 0"
    /\ RemoteTargets = {"mw2", "mwtask1"}
    /\ \E k \in 1..Len(output) : output[k] = "Deploying to servers: [mw1 mw2 mwtask1]"

-----------------------------------------------------------------------------
(* C12: what the operator learns of a failure *)

\* What the program itself has told the operator: the lines on standard
\* output and the message log.Fatal wrote. (The streams of a wired child
\* process carry that process's own text, not the error the step returned.)
Surfaced == Range(output) \cup {fatal}

FailedCalls == {i \in 1..Len(calls) : calls[i].err # Nil}

\* C12: when the run has ended, the error of every failed step has reached the
\* operator, as the result executeDeploy returned or as a line of output.
C12_EveryFailureSurfaced ==
    pc = "exited" =>
        \A i \in FailedCalls : calls[i].err = deployErr \/ calls[i].err \in Surfaced

-----------------------------------------------------------------------------
(* C13: the error executeDeploy returns *)

Aggregate == "deployment completed with errors"

\* C13: when executeDeploy has returned, its result is the error of the failed
\* step itself (the last step invoked) if a step failed with Force unset; it
\* is the aggregate "deployment completed with errors" exactly if Force is set
\* and at least one step failed; and it is nil if no step failed.
C13_ReturnedError ==
    Returned =>
        /\ (~config.Force /\ ~AllSucceeded) =>
              /\ deployErr = calls[Len(calls)].err
              /\ deployErr # Nil
              /\ deployErr # Aggregate
        /\ (deployErr = Aggregate) <=> (config.Force /\ ~AllSucceeded)
        /\ AllSucceeded => deployErr = Nil

\* both kinds of result have been returned: here the aggregate, after a failed
\* vendor update and a later step
C13_Witness ==
    /\ Returned
    /\ config.Force
    /\ deployErr = Aggregate
    /\ Len(calls) >= 2
    /\ calls[1].err = "failed to pull vendor: " \o CmdError

-----------------------------------------------------------------------------
(* C14: the sub-actions of the vendor update *)

VendorPath == STAGINGPATH \o "/vendor"

\* which sub-action of the vendor update a command is ("" if none)
VendorKind(c) ==
    IF c.name = "git" /\ Len(c.args) >= 3 /\ c.args[1] = "-C" /\ c.args[2] = VendorPath
    THEN (IF c.args[3] = "reset" THEN "reset"
          ELSE IF c.args[3] = "pull" THEN "pull" ELSE "")
    ELSE IF c.name = "composer" /\ c.args[1] = "update" /\ c.dir = STAGINGPATH
    THEN "install"
    ELSE ""

VendorCommands == SelectSeq(commands, LAMBDA c : VendorKind(c) # "")

VendorCalls == {i \in 1..Len(calls) : calls[i].step = "updateVendor"}

\* C14: the commands of a vendor update are, in this order, the reset of the
\* vendor checkout, the pull and the dependency install; each later one ran
\* only after all earlier ones succeeded; and the step reported failure
\* exactly if one of them failed (success exactly if all three ran and
\* succeeded). Without a vendor update none of them ran.
C14_VendorSubActions ==
    LET vc == VendorCommands
        kinds == [i \in 1..Len(vc) |-> VendorKind(vc[i])]
    IN  /\ VendorCalls = {} => vc = <<>>
        /\ \A i \in VendorCalls :
              /\ Len(vc) >= 1
              /\ IsPrefix(kinds, <<"reset", "pull", "install">>)
              /\ \A k \in 2..Len(vc) : \A j \in 1..(k - 1) : vc[j].err = Nil
              /\ (calls[i].err # Nil) <=> (\E k \in 1..Len(vc) : vc[k].err # Nil)
              /\ (calls[i].err = Nil) <=>
                    (Len(vc) = 3 /\ \A k \in 1..3 : vc[k].err = Nil)

\* a vendor update has stopped at its failed pull, the install not run
C14_Witness ==
    /\ VendorCalls # {}
    /\ Len(VendorCommands) = 2
    /\ VendorCommands[1].err = Nil
    /\ VendorCommands[2].err = CmdError
    /\ calls[1].err = "failed to pull vendor: " \o CmdError

-----------------------------------------------------------------------------
(* C15: the sync mode *)

\* the sync mode options among the arguments of one rsync invocation
ModesOf(r) == Range(r.args) \cap {"--inplace", "--update"}

\* C15: every rsync invocation of a run, local or remote, carries exactly one
\* sync mode option, the one config.IgnoreTime selects: --inplace when it is
\* set, --update when it is not; so no run has invocations of both modes.
C15_OneSyncMode ==
    /\ \A j \in 1..Len(rsyncs) :
          ModesOf(rsyncs[j]) = IF config.IgnoreTime THEN {"--inplace"} ELSE {"--update"}
    /\ \A j \in 1..Len(rsyncs) : ModesOf(rsyncs[j]) = ModesOf(rsyncs[1])

\* a run with --ignore-time has made local and remote invocations
C15_Witness ==
    /\ config.IgnoreTime
    /\ ~config.UpgradeWorld
    /\ \E j, k \in 1..Len(rsyncs) :
          /\ rsyncs[j].by = "rsyncToLocalProduction"
          /\ rsyncs[k].by = "rsyncToRemoteServer"
          /\ ModesOf(rsyncs[j]) = {"--inplace"}
          /\ ModesOf(rsyncs[k]) = {"--inplace"}

-----------------------------------------------------------------------------
(* C16: deletion and hidden files *)

\* C16: every rsync invocation, local or remote, is recursive, deletes at the
\* destination what the source no longer has (--delete) and leaves out hidden
\* entries (--exclude=.*), each option given once.
C16_DeleteAndExcludeHidden ==
    \A j \in 1..Len(rsyncs) :
        LET a == rsyncs[j].args
            Count(opt) == Cardinality({k \in 1..Len(a) : a[k] = opt})
        IN  /\ Count("--delete") = 1
            /\ Count("--exclude=.*") = 1
            /\ Count("-r") = 1

\* local and remote invocations have been made
C16_Witness ==
    /\ \E j \in 1..Len(rsyncs) :
          /\ rsyncs[j].by = "rsyncToLocalProduction"
          /\ "--delete" \in Range(rsyncs[j].args)
    /\ \E j \in 1..Len(rsyncs) :
          /\ rsyncs[j].by = "rsyncToRemoteServer"
          /\ "--exclude=.*" \in Range(rsyncs[j].args)

-----------------------------------------------------------------------------
(* C17: the argument list of a remote sync *)

KeyPath == "/prod/mediawiki-staging/deploykey"

\* the options rsync knows among the arguments the program passes; of these
\* only -e takes a value (-i is rsync's --itemize-changes)
RsyncOptions == {"--inplace", "--update", "-e", "-i", "-r", "--delete", "--exclude=.*"}

\* the arguments rsync takes as sources and destination: those that are no
\* option and not the value of -e
Positionals(a) ==
    LET IsPositional(k) == a[k] \notin RsyncOptions /\ ~(k > 1 /\ a[k - 1] = "-e")
        ks == {k \in 1..Len(a) : IsPositional(k)}
        RECURSIVE upTo(_)
        upTo(n) == IF n = 0 THEN <<>>
                   ELSE IF n \in ks THEN Append(upTo(n - 1), a[n]) ELSE upTo(n - 1)
    IN  upTo(Len(a))

RemoteRsyncs == {j \in 1..Len(rsyncs) : rsyncs[j].by = "rsyncToRemoteServer"}

\* C17: every remote sync gives rsync the remote-shell command, key path
\* included, as the single value of -e, so that its only source is the
\* production root, its destination the same path on the target as the deploy
\* user, and the key path is no argument of its own.
C17_RemoteShellIsOneValue ==
    \A j \in RemoteRsyncs :
        LET a == rsyncs[j].args
        IN  /\ \E k \in 1..(Len(a) - 1) : a[k] = "-e" /\ a[k + 1] = "ssh -i " \o KeyPath
            /\ Positionals(a) = <<PRODUCTIONPATH \o "/", rsyncs[j].dst>>
            /\ \E sv \in Range(config.Servers) :
                  rsyncs[j].dst = DEPLOYUSER \o "@" \o sv \o ":" \o PRODUCTIONPATH \o "/"
            /\ KeyPath \notin Range(a)

-----------------------------------------------------------------------------
(* C18: the targets of remote syncs *)

Roster == Range(ALLSERVERS)

\* C18: every server a remote sync was issued to is a server of the roster
\* mw1, mw2, mwtask1; in particular none is the empty name a --servers value
\* ending with a separator produces.
C18_RemoteTargetsInRoster ==
    \A i \in 1..Len(calls) :
        calls[i].step = "rsyncToRemoteServer" =>
            calls[i].arg \in Roster /\ calls[i].arg # ""

-----------------------------------------------------------------------------
(* C19: inside the local mirror sync *)

LocalRsyncs == SelectSeq(rsyncs, LAMBDA r : r.by = "rsyncToLocalProduction")

PairsOf(rs) == [i \in 1..Len(rs) |-> <<rs[i].src, rs[i].dst>>]

\* the subtrees of a request in the order vendor, extensions, skins
SubtreeOrder ==
    (IF config.UpgradeVendor
     THEN << <<STAGINGPATH \o "/vendor/", PRODUCTIONPATH \o "/vendor/">> >> ELSE <<>>)
    \o [i \in 1..Len(config.UpgradeExtensions) |->
          <<EXTENSIONPATH \o "/" \o config.UpgradeExtensions[i] \o "/",
            PRODUCTIONPATH \o "/extensions/" \o config.UpgradeExtensions[i] \o "/">>]
    \o [i \in 1..Len(config.UpgradeSkins) |->
          <<SKINPATH \o "/" \o config.UpgradeSkins[i] \o "/",
            PRODUCTIONPATH \o "/skins/" \o config.UpgradeSkins[i] \o "/">>]

\* C19: the subtrees one local mirror sync has mirrored are an initial part of
\* vendor, extensions, skins in this order; a subtree whose mirroring failed
\* is the last one mirrored, whether or not Force is set, and the sync then
\* reports its error; and with Force set a run whose local mirror sync failed
\* still invokes every later step of the request, the localization rebuild
\* and the remote syncs.
C19_LocalSyncStopsRunGoesOn ==
    LET L == LocalRsyncs
    IN  /\ IsPrefix(PairsOf(L), SubtreeOrder)
        /\ \A k \in 1..Len(L) : L[k].err # Nil => k = Len(L)
        /\ \A i \in LocalSyncCalls :
              /\ calls[i].err = lastErr(L)
              /\ calls[i].err = Nil => PairsOf(L) = SubtreeOrder
              /\ (Returned /\ config.Force /\ calls[i].err # Nil) =>
                    StepsOf(calls) = Plan(config, HOSTNAME)

\* under Force the first of several subtrees failed, the others were not
\* mirrored, and the rebuild and a remote sync were invoked afterwards
C19_Witness ==
    /\ Returned
    /\ config.Force
    /\ Len(SubtreeOrder) >= 2
    /\ Len(LocalRsyncs) = 1
    /\ LocalRsyncs[1].err = CmdError
    /\ \E i \in LocalSyncCalls :
          /\ calls[i].err = CmdError
          /\ \E j \in (i + 1)..Len(calls) : calls[j].step = "rebuildL10n"
          /\ \E j \in (i + 1)..Len(calls) : calls[j].step = "rsyncToRemoteServer"

-----------------------------------------------------------------------------
(* C20: termination *)

\* the bound on the step invocations of a request
StepBound(cfg) ==
    1 + Len(cfg.UpgradeExtensions) + Len(cfg.UpgradeSkins) + 2 + Len(cfg.Servers)

\* the position of a control point in RunDeploy and executeDeploy
PcRank(p) ==
    CASE p = "RunDeploy" -> 0
      [] p = "GetValidExtensions" -> 1
      [] p = "GetValidSkins" -> 2
      [] p = "validateConfig" -> 3
      [] p = "updateVendor" -> 4
      [] p = "extLoop" -> 5
      [] p = "skinLoop" -> 6
      [] p = "rsyncToLocalProduction" -> 7
      [] p = "rebuildL10n" -> 8
      [] p = "remoteLoop" -> 9
      [] p = "exited" -> 10

\* the list a loop ranges over
LoopList(p) ==
    CASE p = "extLoop" -> config.UpgradeExtensions
      [] p = "skinLoop" -> config.UpgradeSkins
      [] p = "remoteLoop" -> config.Servers

\* One step of the run moves to a later control point, or to the next element
\* of the list the current loop ranges over; it invokes at most one step.
Advances ==
    /\ \/ PcRank(pc') > PcRank(pc)
       \/ /\ pc' = pc
          /\ pc \in {"extLoop", "skinLoop", "remoteLoop"}
          /\ idx \in 1..Len(LoopList(pc))
          /\ idx' = idx + 1
    /\ calls' = calls \/ (Len(calls') = Len(calls) + 1 /\ IsPrefix(calls, calls'))

\* C20: with every external command returning, every run terminates within
\* the bound: a run that has not exited can always take a further step, every
\* step advances (to a later control point or to the next list element, so
\* that no run goes on for ever), and the number of step invocations never
\* exceeds 1 + |extensions| + |skins| + 2 + |servers|.
C20_TerminatesWithinBound ==
    /\ [](pc = "exited" \/ ENABLED Next)
    /\ [][Advances]_vars
    /\ [](Len(calls) <= StepBound(config))

\* a run that invoked every kind of step, several extensions and a remote
\* sync has returned, one invocation below the bound
C20_Witness ==
    /\ Returned
    /\ exitStatus = "exit 0"
    /\ Len(config.UpgradeExtensions) >= 2
    /\ Len(calls) >= 6
    /\ Len(calls) + 1 = StepBound(config)

====
